---------------------------- MODULE Spec2Model ----------------------------
(***************************************************************************)
(* Naming, sequencing and provisioning of access switches (CreateSwitch)   *)
(* and the virtual-chassis rename cascade (RenameVCMembers), modelled as   *)
(* state machines over the inventory store.                                *)
(*                                                                         *)
(* Text is a sequence of one-character strings, so that splitting,         *)
(* trimming, regular-expression matching and normalisation are computed    *)
(* character by character, as the Python code computes them.               *)
(***************************************************************************)
EXTENDS Integers, Sequences, FiniteSets, TLC

(***************************************************************************)
(* Bounds of the model.                                                    *)
(***************************************************************************)
\* Device records the store may hold before further provisioning is refused.
MaxDevices == 2

\* Largest sequence number the properties look for in device names.
MaxSeq == 9

\* The number of devices in the stores that rename cascades start from.
MaxMembers == 3

\* Longest text drawn from the alphabet as input of the text helpers.
MaxLen == 4

(***************************************************************************)
(* Characters and text primitives (Python str / re semantics, ASCII).      *)
(***************************************************************************)
DigitChars == <<"0", "1", "2", "3", "4", "5", "6", "7", "8", "9">>

LowerChars ==
  <<"a", "b", "c", "d", "e", "f", "g", "h", "i", "j", "k", "l", "m",
    "n", "o", "p", "q", "r", "s", "t", "u", "v", "w", "x", "y", "z">>

UpperChars ==
  <<"A", "B", "C", "D", "E", "F", "G", "H", "I", "J", "K", "L", "M",
    "N", "O", "P", "Q", "R", "S", "T", "U", "V", "W", "X", "Y", "Z">>

Range(f) == {f[i] : i \in DOMAIN f}

DigitSet == Range(DigitChars)

LowerSet == Range(LowerChars)

UpperSet == Range(UpperChars)

IsDigit(c) == c \in DigitSet

IsLower(c) == c \in LowerSet

IsUpper(c) == c \in UpperSet

\* [A-Za-z0-9]
IsAlnum(c) == IsDigit(c) \/ IsLower(c) \/ IsUpper(c)

\* [a-z0-9]
IsLowerAlnum(c) == IsDigit(c) \/ IsLower(c)

\* Whitespace removed by str.strip().
IsSpace(c) == c \in {" ", "\t", "\n"}

\* The value of each decimal digit.
DigitValues ==
  [c \in DigitSet |-> (CHOOSE i \in DOMAIN DigitChars : DigitChars[i] = c) - 1]

DigitVal(c) == DigitValues[c]

\* The lower-case letter of each upper-case letter.
LowerOf ==
  [c \in UpperSet |->
     LowerChars[CHOOSE i \in DOMAIN UpperChars : UpperChars[i] = c]]

\* str.lower() on one character.
LowerChar(c) == IF IsUpper(c) THEN LowerOf[c] ELSE c

\* str.lower()
ToLower(s) == [i \in 1..Len(s) |-> LowerChar(s[i])]

AllDigits(s) == \A i \in 1..Len(s) : IsDigit(s[i])

\* The part of s from position i to its end.
Tail_(s, i) == SubSeq(s, i, Len(s))

\* str.startswith / str.endswith
StartsWith(s, p) == Len(s) >= Len(p) /\ SubSeq(s, 1, Len(p)) = p

EndsWith(s, p) == Len(s) >= Len(p) /\ SubSeq(s, Len(s) - Len(p) + 1, Len(s)) = p

\* Position of the first occurrence of character c in s, 0 when absent.
IndexOf(s, c) ==
  IF \E i \in 1..Len(s) : s[i] = c
    THEN CHOOSE i \in 1..Len(s) : s[i] = c /\ \A j \in 1..(i - 1) : s[j] # c
    ELSE 0

\* str.split(c): always at least one part.
RECURSIVE Split(_, _)
Split(s, c) ==
  LET i == IndexOf(s, c)
  IN  IF i = 0
        THEN <<s>>
        ELSE <<SubSeq(s, 1, i - 1)>> \o Split(Tail_(s, i + 1), c)

\* str.split(c, 1): at most one split.
SplitOnce(s, c) ==
  LET i == IndexOf(s, c)
  IN  IF i = 0 THEN <<s>> ELSE <<SubSeq(s, 1, i - 1), Tail_(s, i + 1)>>

\* str.strip(): remove leading and trailing whitespace.
RECURSIVE LStrip(_)
LStrip(s) == IF s # <<>> /\ IsSpace(Head(s)) THEN LStrip(Tail(s)) ELSE s

RECURSIVE RStrip(_)
RStrip(s) ==
  IF s # <<>> /\ IsSpace(s[Len(s)]) THEN RStrip(SubSeq(s, 1, Len(s) - 1)) ELSE s

Strip(s) == RStrip(LStrip(s))

\* str.strip('-')
RECURSIVE LStripHyphen(_)
LStripHyphen(s) == IF s # <<>> /\ Head(s) = "-" THEN LStripHyphen(Tail(s)) ELSE s

RECURSIVE RStripHyphen(_)
RStripHyphen(s) ==
  IF s # <<>> /\ s[Len(s)] = "-"
    THEN RStripHyphen(SubSeq(s, 1, Len(s) - 1))
    ELSE s

StripHyphens(s) == RStripHyphen(LStripHyphen(s))

\* "-".join(parts)
RECURSIVE JoinHyphen(_)
JoinHyphen(parts) ==
  IF parts = <<>> THEN <<>>
  ELSE IF Len(parts) = 1 THEN parts[1]
  ELSE parts[1] \o <<"-">> \o JoinHyphen(Tail(parts))

\* re.sub(r'[^A-Za-z0-9]+', '', s)
KeepAlnum(s) == SelectSeq(s, IsAlnum)

IsAlnumOrHyphen(c) == IsAlnum(c) \/ c = "-"

\* re.sub(r'[^A-Za-z0-9\-]', '', s)
KeepAlnumHyphen(s) == SelectSeq(s, IsAlnumOrHyphen)

\* re.sub(r'-{2,}', '-', s): every run of hyphens becomes one hyphen.
RECURSIVE CollapseHyphens(_)
CollapseHyphens(s) ==
  IF Len(s) < 2 THEN s
  ELSE IF s[1] = "-" /\ s[2] = "-" THEN CollapseHyphens(Tail(s))
  ELSE <<s[1]>> \o CollapseHyphens(Tail(s))

\* int(digits) for a non-empty string of decimal digits.
RECURSIVE StrToInt(_)
StrToInt(s) ==
  IF s = <<>> THEN 0
  ELSE 10 * StrToInt(SubSeq(s, 1, Len(s) - 1)) + DigitVal(s[Len(s)])

\* str(n) for n >= 0.
RECURSIVE IntToStr(_)
IntToStr(n) ==
  IF n < 10 THEN <<DigitChars[n + 1]>>
  ELSE IntToStr(n \div 10) \o <<DigitChars[(n % 10) + 1]>>


(***************************************************************************)
(* Reference data of the inventory store.  Records are identified by       *)
(* their position (1-based) in the sequence that holds them; 0 is "none".  *)
(***************************************************************************)
\* A Location record and the name of its LocationType.
Building(name) == [name |-> name, location_type |-> "Building"]

Room(name) == [name |-> name, location_type |-> "Room"]

\* Location records: buildings 1 and 2, rooms 3 and 4, which the requests
\* select; from 5 on, locations whose names lack fields: "Annex",
\* " Lab 7 ", "X: 105: ", "X:105:", ":", "A:B:C:D", " 9 : m : 2k ".
Locations ==
  << Building(<<"0", "1", "2", "3", ":", " ", "E", "N", "G", "R">>),
     Building(<<"0", "4", "5", "6", ":", " ", "E", "N", " ", "G", "R">>),
     Room(<<"X", ":", " ", "1", "0", "5", ":", " ", "1", "k">>),
     Room(<<"Y", ":", " ", "1", "0", "6">>),
     Building(<<"A", "n", "n", "e", "x">>),
     Room(<<" ", "L", "a", "b", " ", "7", " ">>),
     Room(<<"X", ":", " ", "1", "0", "5", ":", " ">>),
     Room(<<"X", ":", "1", "0", "5", ":">>),
     Building(<<":">>),
     Room(<<"A", ":", "B", ":", "C", ":", "D">>),
     Room(<<" ", "9", " ", ":", " ", "m", " ", ":", " ", "2", "k", " ">>) >>

Manufacturers ==
  << [name |-> <<"C", "i", "s", "c", "o">>],
     [name |-> <<"A", "r", "u", "b", "a">>] >>

\* DeviceType records: a base model with a ".1" variant, the variant itself,
\* a base model without a variant, and a ".1" record of that name that
\* belongs to the other manufacturer.
DeviceTypes ==
  << [manufacturer |-> 1, model |-> <<"C", "9", "3", "0", "0">>],
     [manufacturer |-> 1, model |-> <<"C", "9", "3", "0", "0", ".", "1">>],
     [manufacturer |-> 1, model |-> <<"C", "9", "2", "0", "0">>],
     [manufacturer |-> 2, model |-> <<"C", "9", "2", "0", "0", ".", "1">>] >>

\* VLAN records; vg_location is the location of the VLAN's group (0: no group
\* or a group without location).
VLANs ==
  << [vid |-> 10, vg_location |-> 1],
     [vid |-> 20, vg_location |-> 2],
     [vid |-> 30, vg_location |-> 0],
     [vid |-> 40, vg_location |-> 3] >>

\* An IPv4 address as the 32-bit number it denotes.
IPv4(a, b, c, d) == ((a * 256 + b) * 256 + c) * 256 + d

\* Prefix records in the store's default order (network, then prefix length).
Prefixes ==
  << [vlan |-> 1, network |-> IPv4(10, 0, 5, 0), prefix_length |-> 24],
     [vlan |-> 2, network |-> IPv4(10, 0, 5, 0), prefix_length |-> 25],
     [vlan |-> 1, network |-> IPv4(10, 0, 5, 0), prefix_length |-> 26],
     [vlan |-> 1, network |-> IPv4(10, 0, 7, 7), prefix_length |-> 32] >>

RECURSIVE Pow2(_)
Pow2(n) == IF n = 0 THEN 1 ELSE 2 * Pow2(n - 1)

\* The host lies in the prefix's address range.
InNetwork(p, host) ==
  LET size == Pow2(32 - p.prefix_length)
  IN  host \div size = p.network \div size

\* Lookup network__net_contains=<host>: the prefix strictly contains the
\* host taken as a /32 network.
NetContains(p, host) == p.prefix_length < 32 /\ InNetwork(p, host)

\* Lookup network__net_contains_or_equals=<host>.
NetContainsOrEquals(p, host) == InNetwork(p, host)

\* QuerySet.first() over the records of a sequence, given the set of positions
\* of the records that satisfy the filter: the first position, 0 when there is
\* none.
First(matches) ==
  IF matches = {} THEN 0
  ELSE CHOOSE i \in matches : \A j \in matches : i <= j

ROLE_NAME == "BLDG_L2-Access"

(***************************************************************************)
(* HierarchyNameComposer.                                                  *)
(***************************************************************************)
\* The tokens of a building name, given its parts around ":".
BuildingTokens(name, parts) ==
  [bldg_num    |-> IF Len(parts) >= 1 THEN Strip(parts[1]) ELSE Strip(name),
   bldg_abbrev |-> IF Len(parts) >= 2 THEN Strip(parts[2]) ELSE Strip(name)]

_parse_building(building) ==
  BuildingTokens(Locations[building].name,
                 Split(Locations[building].name, ":"))

\* The tokens of a room name, given its parts around ":".
RoomTokens(name, parts) ==
  [room_num      |-> IF Len(parts) >= 2 THEN Strip(parts[2]) ELSE Strip(name),
   k_designation |-> IF Len(parts) >= 3 THEN Strip(parts[3]) ELSE <<>>]

_parse_room(room) ==
  RoomTokens(Locations[room].name, Split(Locations[room].name, ":"))

\* NameTokens that appends the k designation whatever it is.
NameTokens_AlwaysFour(b, r) ==
  <<b.bldg_num, b.bldg_abbrev, r.room_num, r.k_designation>>

\* The list of name tokens built from the parsed building b and room r.
NameTokens(b, r) ==
  IF r.k_designation # <<>>
    THEN <<b.bldg_num, b.bldg_abbrev, r.room_num, r.k_designation>>
    ELSE <<b.bldg_num, b.bldg_abbrev, r.room_num>>

_base_name_parts(building, room) ==
  NameTokens(_parse_building(building), _parse_room(room))

(***************************************************************************)
(* SequenceAllocator.                                                      *)
(***************************************************************************)
\* re.fullmatch(rf"{re.escape(base_prefix)}(\d+)(?:\.1)?", name, re.IGNORECASE):
\* group 1 of the match, <<>> when the name does not match.
RoleSeqMatch(base_prefix, name) ==
  IF ~(Len(name) > Len(base_prefix)
         /\ StartsWith(ToLower(name), ToLower(base_prefix)))
    THEN <<>>
    ELSE LET rest == Tail_(name, Len(base_prefix) + 1)
             cut  == SubSeq(rest, 1, Len(rest) - 2)
         IN  IF AllDigits(rest) THEN rest
             ELSE IF EndsWith(rest, <<".", "1">>) /\ cut # <<>> /\ AllDigits(cut)
               THEN cut
             ELSE <<>>

\* The loop of _auto_role_code over the names of the devices at the room, in
\* the order of the store: the largest matched number, starting from max_n.
\* One iteration of that loop: max_n after a name whose match is m.
LargerSeq(m, max_n) ==
  IF m # <<>> /\ StrToInt(m) > max_n THEN StrToInt(m) ELSE max_n

RECURSIVE MaxRoleSeq(_, _, _, _)
MaxRoleSeq(devs, room, base_prefix, max_n) ==
  IF devs = <<>> THEN max_n
  ELSE MaxRoleSeq(Tail(devs), room, base_prefix,
                  LargerSeq(IF Head(devs).location = room
                              THEN RoleSeqMatch(base_prefix, Head(devs).name)
                              ELSE <<>>,
                            max_n))

\* _auto_role_code as a first-gap allocator: the smallest unused number.
_auto_role_code_FirstGap(devs, room, base_parts) ==
  LET base_prefix == JoinHyphen(base_parts) \o <<"-", "a", "s">>
      hits == {i \in 1..Len(devs) :
                 /\ devs[i].location = room
                 /\ RoleSeqMatch(base_prefix, devs[i].name) # <<>>}
      used == {StrToInt(RoleSeqMatch(base_prefix, devs[i].name)) : i \in hits}
      gap  == CHOOSE n \in 1..(Len(devs) + 1) :
                n \notin used /\ \A m \in 1..(n - 1) : m \in used
  IN  <<"a", "s">> \o IntToStr(gap)

\* Line 164: the role code that follows the largest number found.
RoleCodeAfter(max_n) ==
  <<"a", "s">> \o IntToStr(IF max_n # 0 THEN max_n + 1 ELSE 1)

_auto_role_code(devs, room, base_parts) ==
  RoleCodeAfter(
    MaxRoleSeq(devs, room, JoinHyphen(base_parts) \o <<"-", "a", "s">>, 0))

(***************************************************************************)
(* Name suggestion, normalisation and structural validation.               *)
(***************************************************************************)
\* Normalize that trims the hyphens before anything else.
Normalize_StripFirst(base) ==
  ToLower(CollapseHyphens(KeepAlnumHyphen(StripHyphens(base))))

\* Lines 172-174 of _suggest_name: the normalisation of the joined name.
Normalize(base) == ToLower(StripHyphens(CollapseHyphens(KeepAlnumHyphen(base))))

\* Lines 170-171: the cleaned role code, "as1" when nothing is left of it.
RoleClean(cleaned) == IF cleaned # <<>> THEN cleaned ELSE <<"a", "s", "1">>

\* SuggestFromParts that consults the allocator whatever the role code.
SuggestFromParts_AlwaysAllocate(devs, room, base_parts, role_code_text) ==
  Normalize(JoinHyphen(Append(base_parts,
    RoleClean(ToLower(KeepAlnum(_auto_role_code(devs, room, base_parts)))))))

\* _suggest_name once the base name parts are known.
SuggestFromParts(devs, room, base_parts, role_code_text) ==
  Normalize(JoinHyphen(Append(base_parts,
    RoleClean(ToLower(KeepAlnum(
      IF role_code_text = <<>>
        THEN _auto_role_code(devs, room, base_parts)
        ELSE role_code_text))))))

_suggest_name(devs, building, room, role_code_text) ==
  SuggestFromParts(devs, room, _base_name_parts(building, room),
                   role_code_text)

\* _validate_name with re.match: the pattern has to match a prefix only.
_validate_name_Match(name) ==
  /\ Len(name) >= 2
  /\ IsAlnum(name[1])
  /\ IsAlnumOrHyphen(name[2])

\* re.fullmatch(r'[A-Za-z0-9][A-Za-z0-9\-]{1,62}', name): TRUE when the name
\* is accepted (no ValueError).
_validate_name(name) ==
  /\ Len(name) >= 2
  /\ Len(name) <= 63
  /\ IsAlnum(name[1])
  /\ \A i \in 2..Len(name) : IsAlnumOrHyphen(name[i])

\* ip_address(str(mgmt_ip).strip()) for dotted-quad text: the address as a
\* number, -1 when the text is rejected.
OctetOk(p) == p # <<>> /\ Len(p) <= 3 /\ AllDigits(p) /\ StrToInt(p) <= 255

\* The address made of the parts between the dots, -1 when they are not
\* four octets.
QuadValue(parts) ==
  IF Len(parts) = 4 /\ \A i \in 1..4 : OctetOk(parts[i])
    THEN IPv4(StrToInt(parts[1]), StrToInt(parts[2]),
              StrToInt(parts[3]), StrToInt(parts[4]))
    ELSE -1

ParseIPv4(text) == QuadValue(Split(Strip(text), "."))

(***************************************************************************)
(* State.                                                                  *)
(*   store : the inventory store's mutable records,                        *)
(*     devices       sequence of Device records (id = position),           *)
(*     virtual_chassis  sequence of VirtualChassis records,                *)
(*     interfaces    sequence of Interface records,                        *)
(*     ip_addresses  sequence of IPAddress records,                        *)
(*     roles         names of the Role records;                            *)
(*   jobs  : for each worker, the job it runs: the submitted form data,    *)
(*     the position in run() and the local variables of run().             *)
(***************************************************************************)
VARIABLES store, jobs

vars == <<store, jobs>>

Workers == {1, 2}

EmptyStore(roles) ==
  [devices |-> <<>>, virtual_chassis |-> <<>>, interfaces |-> <<>>,
   ip_addresses |-> <<>>, roles |-> roles]

Idle == [pc |-> "idle"]

Finished(l) == l.pc \in {"idle", "done", "failed"}

\* The local variables of CreateSwitch.run before its first statement.
NewCreateSwitch(req) ==
  [job |-> "CreateSwitch", req |-> req, pc |-> "validate", err |-> "",
   suggested_name |-> <<>>, base_name |-> <<>>, device_name |-> <<>>,
   ip_host |-> -1, model_to_use |-> 0, device |-> 0, vc_obj |-> 0,
   covering |-> 0, mask_len |-> -1, svi_iface |-> 0, ip_obj |-> 0]

\* The local variables of RenameVCMembers.run before its first statement.
NewRenameVCMembers(req) ==
  [job |-> "RenameVCMembers", req |-> req, pc |-> "validate", err |-> "",
   members |-> <<>>, member |-> 0, log |-> <<>>]

Fail(s, l, err) == [s |-> s, l |-> [l EXCEPT !.pc = "failed", !.err = err]]

Goto(s, l, pc) == [s |-> s, l |-> [l EXCEPT !.pc = pc]]

\* sub in s (Python's substring test).
Contains(s, sub) ==
  \E i \in 1..(Len(s) - Len(sub) + 1) : SubSeq(s, i, i + Len(sub) - 1) = sub

\* Device.objects.filter(name=name).exists()
DeviceNameExists(s, name) ==
  \E i \in 1..Len(s.devices) : s.devices[i].name = name

\* HostExists that looks for the host as a /32 address only.
HostExists_HostMask(s, host) ==
  \E i \in 1..Len(s.ip_addresses) :
    s.ip_addresses[i].host = host /\ s.ip_addresses[i].mask_length = 32

\* IPAddress.objects.filter(host=host).exists()
HostExists(s, host) ==
  \E i \in 1..Len(s.ip_addresses) : s.ip_addresses[i].host = host

\* IPAddress.objects.filter(host=host, mask_length=mask_len).exists()
AddressExists(s, host, mask_len) ==
  \E i \in 1..Len(s.ip_addresses) :
    s.ip_addresses[i].host = host /\ s.ip_addresses[i].mask_length = mask_len

(***************************************************************************)
(* CreateSwitch.run, one step per group of statements around a store       *)
(* access.  Each step maps the store s and the locals l to the store and   *)
(* locals after it; a raised ValueError ends the run with pc = "failed".   *)
(***************************************************************************)
\* Lines 208-229: placement, manufacturer/model and role checks.
CS_Validate(s, l) ==
  LET req      == l.req
      vg_loc   == VLANs[req.mgmt_vlan].vg_location
      mfg_name == Manufacturers[req.manufacturer].name
      model    == ToLower(DeviceTypes[req.model].model)
  IN  IF vg_loc = 0 \/ vg_loc # req.building THEN Fail(s, l, "placement")
      ELSE IF ~Contains(ToLower(mfg_name), <<"c", "i", "s", "c", "o">>)
        THEN Fail(s, l, "manufacturer")
      ELSE IF \E d \in {"1", "2", "3", "4"} : EndsWith(model, <<".", d>>)
        THEN Fail(s, l, "model")
      ELSE IF ROLE_NAME \notin s.roles THEN Fail(s, l, "role")
      ELSE Goto(s, l, "suggest")

\* Lines 231-239: name suggestion, choice of the base name, structural check.
\* CS_Validated without the structural check.
CS_Validated_Unchecked(s, l) == Goto(s, l, "check_name")

\* Line 239: the structural check of the chosen base name.
CS_Validated(s, l) ==
  IF ~_validate_name(l.base_name) THEN Fail(s, l, "name_invalid")
  ELSE Goto(s, l, "check_name")

\* Lines 233-237: the base name is the custom name in manual mode, the
\* suggested name otherwise.
CS_Choose(s, l, suggested) ==
  CS_Validated(s, [l EXCEPT !.suggested_name = suggested,
                            !.base_name =
                              IF l.req.name_mode = "manual"
                                   /\ l.req.custom_name # <<>>
                                THEN Strip(l.req.custom_name)
                                ELSE suggested])

\* Lines 231-239: name suggestion, choice of the base name, structural check.
CS_Suggest(s, l) ==
  CS_Choose(s, l, _suggest_name(s.devices, l.req.building, l.req.room,
                                l.req.role_code))

\* FinalNames that never appends the member suffix.
FinalNames_NoSuffix(base_name, vc) ==
  [device_name |-> base_name, base_name |-> base_name]

\* Lines 244-250: name finalisation.
FinalNames(base_name, vc) ==
  IF vc = "yes"
    THEN IF ~EndsWith(base_name, <<".", "1">>)
           THEN [device_name |-> base_name \o <<".", "1">>, base_name |-> base_name]
           ELSE [device_name |-> base_name,
                 base_name   |-> SubSeq(base_name, 1, Len(base_name) - 2)]
    ELSE [device_name |-> base_name, base_name |-> base_name]

\* CS_CheckName with a uniqueness check that forgets the ".1" variant.
CS_CheckName_ExactOnly(s, l) ==
  LET req   == l.req
      names == FinalNames(l.base_name, req.vc)
      host  == ParseIPv4(req.mgmt_ip)
      l2    == [l EXCEPT !.device_name = names.device_name,
                         !.base_name = names.base_name]
  IN  IF DeviceNameExists(s, l.base_name) THEN Fail(s, l, "name_conflict")
      ELSE IF host = -1 THEN Fail(s, l2, "ip_invalid")
      ELSE Goto(s, [l2 EXCEPT !.ip_host = host], "check_ip")

\* Lines 241-255: name uniqueness check, name finalisation, address parsing.
CS_CheckName(s, l) ==
  LET req   == l.req
      names == FinalNames(l.base_name, req.vc)
      host  == ParseIPv4(req.mgmt_ip)
      l2    == [l EXCEPT !.device_name = names.device_name,
                         !.base_name = names.base_name]
  IN  IF DeviceNameExists(s, l.base_name)
           \/ DeviceNameExists(s, l.base_name \o <<".", "1">>)
        THEN Fail(s, l, "name_conflict")
      ELSE IF host = -1 THEN Fail(s, l2, "ip_invalid")
      ELSE Goto(s, [l2 EXCEPT !.ip_host = host], "check_ip")

\* CS_CheckIP without the address-in-use check.
CS_CheckIP_Unchecked(s, l) ==
  LET req       == l.req
      alt_model == First({k \in DOMAIN DeviceTypes :
                           /\ DeviceTypes[k].manufacturer = req.manufacturer
                           /\ DeviceTypes[k].model =
                                DeviceTypes[req.model].model \o <<".", "1">>})
  IN  Goto(s, [l EXCEPT !.model_to_use =
                          IF alt_model # 0 THEN alt_model ELSE req.model],
           "create")

\* Lines 257-268: first address-in-use check, choice of the DeviceType.
CS_CheckIP(s, l) ==
  LET req       == l.req
      alt_model == First({k \in DOMAIN DeviceTypes :
                           /\ DeviceTypes[k].manufacturer = req.manufacturer
                           /\ DeviceTypes[k].model =
                                DeviceTypes[req.model].model \o <<".", "1">>})
  IN  IF HostExists(s, l.ip_host) THEN Fail(s, l, "ip_in_use")
      ELSE Goto(s, [l EXCEPT !.model_to_use =
                               IF alt_model # 0 THEN alt_model ELSE req.model],
                "create")

\* CS_Create that gives the device the selected model, variant or not.
CS_Create_SelectedModel(s, l) ==
  LET dev == [name |-> l.device_name, device_type |-> l.req.model,
              location |-> l.req.room, virtual_chassis |-> 0,
              vc_position |-> 0, primary_ip4 |-> 0]
      s2  == [s EXCEPT !.devices = Append(@, dev)]
  IN  Goto(s2, [l EXCEPT !.device = Len(s2.devices)], "vc")

\* Lines 270-278: Device.objects.create(...).
CS_Create(s, l) ==
  LET dev == [name |-> l.device_name, device_type |-> l.model_to_use,
              location |-> l.req.room, virtual_chassis |-> 0,
              vc_position |-> 0, primary_ip4 |-> 0]
      s2  == [s EXCEPT !.devices = Append(@, dev)]
  IN  Goto(s2, [l EXCEPT !.device = Len(s2.devices)], "vc")

\* CS_VirtualChassis that names the chassis after the device, suffix included.
CS_VirtualChassis_DeviceName(s, l) ==
  IF l.req.vc # "yes" THEN Goto(s, l, "covering")
  ELSE
    LET found  == First({k \in DOMAIN s.virtual_chassis :
                          s.virtual_chassis[k].name = l.device_name})
        s2     == IF found # 0 THEN s
                  ELSE [s EXCEPT !.virtual_chassis =
                          Append(@, [name |-> l.device_name, master |-> l.device])]
        vc_obj == IF found # 0 THEN found ELSE Len(s2.virtual_chassis)
        s3     == [s2 EXCEPT !.virtual_chassis[vc_obj].master = l.device,
                             !.devices[l.device].virtual_chassis = vc_obj,
                             !.devices[l.device].vc_position = 1]
    IN  Goto(s3, [l EXCEPT !.vc_obj = vc_obj], "covering")

\* Lines 280-290: the virtual chassis is ensured, with this device as its
\* master at position 1.
CS_VirtualChassis(s, l) ==
  IF l.req.vc # "yes" THEN Goto(s, l, "covering")
  ELSE
    LET found  == First({k \in DOMAIN s.virtual_chassis :
                          s.virtual_chassis[k].name = l.base_name})
        s2     == IF found # 0 THEN s
                  ELSE [s EXCEPT !.virtual_chassis =
                          Append(@, [name |-> l.base_name, master |-> l.device])]
        vc_obj == IF found # 0 THEN found ELSE Len(s2.virtual_chassis)
        s3     == IF s2.virtual_chassis[vc_obj].master # l.device
                    THEN [s2 EXCEPT !.virtual_chassis[vc_obj].master = l.device]
                    ELSE s2
        dev    == s3.devices[l.device]
        s4     == IF dev.virtual_chassis # vc_obj \/ dev.vc_position # 1
                    THEN [s3 EXCEPT !.devices[l.device].virtual_chassis = vc_obj,
                                    !.devices[l.device].vc_position = 1]
                    ELSE s3
    IN  Goto(s4, [l EXCEPT !.vc_obj = vc_obj], "covering")

\* CS_Covering as a longest-prefix match: the last matching prefix wins.
CS_Covering_Longest(s, l) ==
  LET matching == {i \in 1..Len(Prefixes) :
                     /\ Prefixes[i].vlan = l.req.mgmt_vlan
                     /\ NetContainsOrEquals(Prefixes[i], l.ip_host)}
      covering == IF matching = {} THEN 0
                  ELSE CHOOSE i \in matching :
                         \A j \in matching :
                           Prefixes[j].prefix_length <= Prefixes[i].prefix_length
  IN  IF covering = 0 THEN Fail(s, l, "no_prefix")
      ELSE Goto(s, [l EXCEPT !.covering = covering,
                             !.mask_len = Prefixes[covering].prefix_length],
                "recheck")

\* Lines 292-303: the covering prefix of the management VLAN.
CS_Covering(s, l) ==
  LET strict == First({k \in DOMAIN Prefixes :
                         /\ Prefixes[k].vlan = l.req.mgmt_vlan
                         /\ NetContains(Prefixes[k], l.ip_host)})
      loose  == First({k \in DOMAIN Prefixes :
                         /\ Prefixes[k].vlan = l.req.mgmt_vlan
                         /\ NetContainsOrEquals(Prefixes[k], l.ip_host)})
      covering == IF strict # 0 THEN strict ELSE loose
  IN  IF covering = 0 THEN Fail(s, l, "no_prefix")
      ELSE Goto(s, [l EXCEPT !.covering = covering,
                             !.mask_len = Prefixes[covering].prefix_length],
                "recheck")

\* Lines 305-306: second address-in-use check, on host and prefix length.
CS_Recheck(s, l) ==
  IF AddressExists(s, l.ip_host, l.mask_len) THEN Fail(s, l, "address_in_use")
  ELSE Goto(s, l, "assign")

\* "Vlan<vid>"
SviName(vlan) == <<"V", "l", "a", "n">> \o IntToStr(VLANs[vlan].vid)

\* _assign_primary_ip that forgets to bind the address to the interface.
_assign_primary_ip_Unbound(s, device, iface, host, mask_len) ==
  LET found  == First({k \in DOMAIN s.ip_addresses :
                          /\ s.ip_addresses[k].host = host
                          /\ s.ip_addresses[k].mask_length = mask_len})
      s2     == IF found # 0 THEN s
                ELSE [s EXCEPT !.ip_addresses =
                        Append(@, [host |-> host, mask_length |-> mask_len])]
      ip_obj == IF found # 0 THEN found ELSE Len(s2.ip_addresses)
  IN  [s2 EXCEPT !.devices[device].primary_ip4 = ip_obj]

\* Lines 183-192: IPAddress get_or_create, binding to the interface, primary
\* address of the device.
_assign_primary_ip(s, device, iface, host, mask_len) ==
  LET found  == First({k \in DOMAIN s.ip_addresses :
                          /\ s.ip_addresses[k].host = host
                          /\ s.ip_addresses[k].mask_length = mask_len})
      s2     == IF found # 0 THEN s
                ELSE [s EXCEPT !.ip_addresses =
                        Append(@, [host |-> host, mask_length |-> mask_len])]
      ip_obj == IF found # 0 THEN found ELSE Len(s2.ip_addresses)
  IN  [s2 EXCEPT !.interfaces[iface].ip_addresses = @ \cup {ip_obj},
                 !.devices[device].primary_ip4 = ip_obj]

\* Lines 308-320: the SVI interface is ensured and the address assigned.
CS_Assign(s, l) ==
  LET svi_name == SviName(l.req.mgmt_vlan)
      found    == First({k \in DOMAIN s.interfaces :
                            /\ s.interfaces[k].device = l.device
                            /\ s.interfaces[k].name = svi_name})
      s2       == IF found # 0 THEN s
                  ELSE [s EXCEPT !.interfaces =
                          Append(@, [device |-> l.device, name |-> svi_name,
                                     ip_addresses |-> {}])]
      iface    == IF found # 0 THEN found ELSE Len(s2.interfaces)
      s3       == _assign_primary_ip(s2, l.device, iface, l.ip_host, l.mask_len)
  IN  Goto(s3, [l EXCEPT !.svi_iface = iface,
                         !.ip_obj = s3.devices[l.device].primary_ip4],
           "done")

CreateSwitchStep(s, l) ==
  CASE l.pc = "validate"   -> CS_Validate(s, l)
    [] l.pc = "suggest"    -> CS_Suggest(s, l)
    [] l.pc = "check_name" -> CS_CheckName(s, l)
    [] l.pc = "check_ip"   -> CS_CheckIP(s, l)
    [] l.pc = "create"     -> CS_Create(s, l)
    [] l.pc = "vc"         -> CS_VirtualChassis(s, l)
    [] l.pc = "covering"   -> CS_Covering(s, l)
    [] l.pc = "recheck"    -> CS_Recheck(s, l)
    [] l.pc = "assign"     -> CS_Assign(s, l)

(***************************************************************************)
(* RenameVCMembers.run.                                                    *)
(***************************************************************************)
\* re.match(r"^\d{4}-[a-z0-9]{3,6}-[a-z0-9]+-\d[k]-[a-z0-9]{1,3}$", name);
\* "$" also matches just before one trailing newline.
AllLowerAlnum(p) == \A i \in 1..Len(p) : IsLowerAlnum(p[i])

\* The pattern, on the parts of the name between its hyphens.
PatternParts(parts) ==
  /\ Len(parts) = 5
  /\ Len(parts[1]) = 4 /\ AllDigits(parts[1])
  /\ Len(parts[2]) >= 3 /\ Len(parts[2]) <= 6 /\ AllLowerAlnum(parts[2])
  /\ Len(parts[3]) >= 1 /\ AllLowerAlnum(parts[3])
  /\ Len(parts[4]) = 2 /\ IsDigit(parts[4][1]) /\ parts[4][2] = "k"
  /\ Len(parts[5]) >= 1 /\ Len(parts[5]) <= 3 /\ AllLowerAlnum(parts[5])

MatchesPattern(name) ==
  PatternParts(Split(IF name # <<>> /\ name[Len(name)] = "\n"
                       THEN SubSeq(name, 1, Len(name) - 1)
                       ELSE name,
                     "-"))

\* Device.objects.filter(virtual_chassis=vc).order_by("vc_position"): the
\* ids of the members, by position (and by id among equal positions).
RECURSIVE OrderByPosition(_, _)
OrderByPosition(devs, ids) ==
  IF ids = {} THEN <<>>
  ELSE LET m == CHOOSE i \in ids :
                  \A j \in ids :
                    \/ devs[i].vc_position < devs[j].vc_position
                    \/ devs[i].vc_position = devs[j].vc_position /\ i <= j
       IN  <<m>> \o OrderByPosition(devs, ids \ {m})

VCMembers(s, vc) ==
  OrderByPosition(s.devices,
    {i \in 1..Len(s.devices) : s.devices[i].virtual_chassis = vc})

\* RV_Validate that checks the pattern after the chassis has been saved.
RV_Validate_AfterSave(s, l) ==
  IF ~MatchesPattern(l.req.new_name)
    THEN Fail([s EXCEPT !.virtual_chassis[l.req.virtual_chassis].name =
                          l.req.new_name], l, "pattern")
  ELSE Goto(s, l, "save_vc")

\* Lines 31-33: the pattern check.
RV_Validate(s, l) ==
  IF ~MatchesPattern(l.req.new_name) THEN Fail(s, l, "pattern")
  ELSE Goto(s, l, "save_vc")

\* RV_SaveVC that saves the chassis without its master.
RV_SaveVC_ResetMaster(s, l) ==
  LET s2 == [s EXCEPT !.virtual_chassis[l.req.virtual_chassis] =
                        [name |-> l.req.new_name, master |-> 0]]
  IN  Goto(s2, [l EXCEPT !.members = VCMembers(s2, l.req.virtual_chassis),
                         !.log = Append(@, [what |-> "chassis",
                                            old |-> s.virtual_chassis[
                                                      l.req.virtual_chassis].name,
                                            new |-> l.req.new_name])],
           "member")

\* Lines 36-46: the chassis is renamed and saved; the member query is
\* evaluated when the loop starts.
RV_SaveVC(s, l) ==
  LET s2 == [s EXCEPT !.virtual_chassis[l.req.virtual_chassis].name =
                        l.req.new_name]
  IN  Goto(s2, [l EXCEPT !.members = VCMembers(s2, l.req.virtual_chassis),
                         !.log = Append(@, [what |-> "chassis",
                                            old |-> s.virtual_chassis[
                                                      l.req.virtual_chassis].name,
                                            new |-> l.req.new_name])],
           "member")

\* The part of name after its last ".", <<>> when it has none.
AfterLastDot(name) ==
  IF \A i \in 1..Len(name) : name[i] # "." THEN <<>>
  ELSE Tail_(name, 1 + CHOOSE i \in 1..Len(name) :
                          name[i] = "." /\ \A j \in (i + 1)..Len(name) : name[j] # ".")

\* RV_Member that keeps only what follows the last "." of the member's name.
RV_Member_LastDot(s, l) ==
  IF l.members = <<>> THEN Goto(s, l, "done")
  ELSE
    LET member == Head(l.members)
        name   == s.devices[member].name
        l2     == [l EXCEPT !.member = member]
    IN  IF Len(SplitOnce(name, ".")) < 2 THEN Fail(s, l2, "no_suffix")
        ELSE Goto([s EXCEPT !.devices[member].name =
                              l.req.new_name \o <<".">> \o AfterLastDot(name)],
                  [l2 EXCEPT !.members = Tail(l.members),
                             !.log = Append(@, [what |-> "device",
                                                old |-> name,
                                                new |-> l.req.new_name \o <<".">>
                                                          \o AfterLastDot(name)])],
                  "member")

\* Lines 46-57: one iteration of the loop over the members.  A name without
\* "." raises IndexError at line 48, before the log call of line 53.
RV_Member(s, l) ==
  IF l.members = <<>> THEN Goto(s, l, "done")
  ELSE
    LET member == Head(l.members)
        pieces == SplitOnce(s.devices[member].name, ".")
        l2     == [l EXCEPT !.member = member]
    IN  IF Len(pieces) < 2 THEN Fail(s, l2, "no_suffix")
        ELSE Goto([s EXCEPT !.devices[member].name =
                              l.req.new_name \o <<".">> \o pieces[2]],
                  [l2 EXCEPT !.members = Tail(l.members),
                             !.log = Append(@, [what |-> "device",
                                                old |-> s.devices[member].name,
                                                new |-> l.req.new_name \o <<".">>
                                                          \o pieces[2]])],
                  "member")

RenameVCMembersStep(s, l) ==
  CASE l.pc = "validate" -> RV_Validate(s, l)
    [] l.pc = "save_vc"  -> RV_SaveVC(s, l)
    [] l.pc = "member"   -> RV_Member(s, l)

(***************************************************************************)
(* Jobs.                                                                   *)
(***************************************************************************)
JobStep(s, l) ==
  IF l.job = "CreateSwitch" THEN CreateSwitchStep(s, l)
  ELSE RenameVCMembersStep(s, l)

\* A job run from its current position to its end: the whole handler.
RECURSIVE RunToEnd(_)
RunToEnd(r) == IF Finished(r.l) THEN r ELSE RunToEnd(JobStep(r.s, r.l))

(***************************************************************************)
(* Form data the operators submit.                                         *)
(***************************************************************************)
\* Management addresses: inside 10.0.5.0/24, /25 and /26; inside 10.0.5.0/24
\* only; inside no prefix; equal to the /32 prefix; not an address.
IpA == <<"1", "0", ".", "0", ".", "5", ".", "1", "0">>

IpB == <<"1", "0", ".", "0", ".", "5", ".", "2", "0", "0">>

IpC == <<"1", "0", ".", "0", ".", "9", ".", "1", "0">>

IpD == <<"1", "0", ".", "0", ".", "7", ".", "7">>

IpBad == <<"1", "0", ".", "0", ".", "5">>

\* Role codes: blank (automatic sequence) and an explicit one.
RoleAs3 == <<"a", "s", "3">>

\* Role codes with characters the name does not keep: "LS-2" and "--".
RoleUpper == <<"L", "S", "-", "2">>

RoleHyphens == <<"-", "-">>

\* Custom names: structurally valid with upper-case letters, and invalid.
CustomUpper ==
  <<"0", "1", "2", "3", "-", "E", "N", "G", "R", "-",
    "1", "0", "5", "-", "1", "k", "-", "A", "S", "2">>

CustomBad == <<"-", "a", "b", "c">>

\* A custom name that carries the member suffix.
CustomMember ==
  <<"0", "1", "2", "3", "-", "e", "n", "g", "r", "-",
    "1", "0", "5", "-", "1", "k", "-", "a", "s", "5", ".", "1">>

\* The three ways a request decides the name: suggested with an automatic
\* sequence number, suggested with an explicit role code, custom.
Auto(req) == [req EXCEPT !.name_mode = "auto"]

AutoRole(req) == [req EXCEPT !.name_mode = "auto", !.role_code = RoleAs3]

Manual(req) == [req EXCEPT !.name_mode = "manual", !.custom_name = CustomUpper]

\* A request that passes every check on an empty store.
Plain ==
  [building |-> 1, room |-> 3, manufacturer |-> 1, model |-> 1,
   name_mode |-> "auto", custom_name |-> <<>>, vc |-> "no",
   mgmt_vlan |-> 1, mgmt_ip |-> IpA, role_code |-> <<>>]

\* Requests that differ in what decides the name.
NameRequests ==
  LET base == [building : {1}, room : {3, 4}, manufacturer : {1}, model : {1},
               name_mode : {"auto"}, custom_name : {<<>>},
               vc : {"yes", "no"}, mgmt_vlan : {1}, mgmt_ip : {IpA, IpB},
               role_code : {<<>>}]
  IN  {Auto(r) : r \in base} \cup {AutoRole(r) : r \in base}
        \cup {Manual(r) : r \in base}

\* Requests for the building whose abbreviation holds a space.
SpaceRequests ==
  {[Plain EXCEPT !.building = 2, !.mgmt_vlan = 2, !.vc = v] : v \in {"yes", "no"}}

\* Requests whose address lies in no prefix, or only in the /32 prefix.
AddressRequests ==
  {[Plain EXCEPT !.mgmt_ip = ip, !.vc = v] : ip \in {IpC, IpD}, v \in {"yes", "no"}}

\* Requests that differ in what the checks before creation look at.
CheckRequests ==
  [building : {1, 2}, room : {3}, manufacturer : {1, 2}, model : {1, 2},
   name_mode : {"manual"}, custom_name : {CustomUpper, CustomBad},
   vc : {"yes"}, mgmt_vlan : {1, 3}, mgmt_ip : {IpA, IpBad},
   role_code : {<<>>}]

\* Requests for the model that has no ".1" variant.
ModelRequests ==
  {[Plain EXCEPT !.model = 3, !.vc = v] : v \in {"yes", "no"}}

\* Requests with a role code that is not kept as it is.
RoleRequests ==
  {[Plain EXCEPT !.role_code = r] : r \in {RoleUpper, RoleHyphens}}

\* Requests with a custom name that ends in ".1".
SuffixRequests ==
  {[Plain EXCEPT !.name_mode = "manual", !.custom_name = CustomMember,
                 !.vc = v] : v \in {"yes", "no"}}

\* A request whose building is the room "X: 105: 1k", with the VLAN whose
\* group is located at that room.
PlacementRequests ==
  {[Plain EXCEPT !.building = 3, !.room = 4, !.mgmt_vlan = 4]}

CreateSwitchRequests ==
  NameRequests \cup SpaceRequests \cup AddressRequests \cup CheckRequests
    \cup ModelRequests \cup RoleRequests \cup PlacementRequests
    \cup SuffixRequests

\* Requests made between rename cascades.
CascadeRequests == NameRequests \cup AddressRequests

\* Requests of the workers that run at the same time: the same room,
\* suggested names, blank role code.
ConcurrentRequests ==
  {[Plain EXCEPT !.mgmt_ip = ip, !.vc = v] : ip \in {IpA, IpB}, v \in {"yes", "no"}}

\* New names for a chassis: two that match the pattern, the first of them
\* a name that provisioning suggests; one without the density token, one
\* with an upper-case abbreviation, one with too short an abbreviation and
\* one with too long a role token.
NewNames ==
  { <<"0", "1", "2", "3", "-", "e", "n", "g", "r", "-",
      "1", "0", "5", "-", "1", "k", "-", "a", "s", "1">>,
    <<"0", "1", "2", "3", "-", "e", "n", "g", "r", "-",
      "1", "0", "5", "-", "1", "k", "-", "l", "s", "2">>,
    <<"0", "1", "2", "3", "-", "e", "n", "g", "r", "-",
      "1", "0", "6", "-", "a", "s", "1">>,
    <<"0", "1", "2", "3", "-", "E", "N", "G", "R", "-",
      "1", "0", "5", "-", "1", "k", "-", "a", "s", "1">>,
    <<"0", "1", "2", "3", "-", "e", "n", "-",
      "1", "0", "5", "-", "1", "k", "-", "a", "s", "1">>,
    <<"0", "1", "2", "3", "-", "e", "n", "g", "r", "-",
      "1", "0", "5", "-", "1", "k", "-", "a", "s", "1", "2">> }

\* Names of devices that are members of a chassis when a cascade starts:
\* "ob.1", "ob.2", "a.b.2", and "ob", a name without member suffix.
MemberNames ==
  { <<"o", "b", ".", "1">>, <<"o", "b", ".", "2">>,
    <<"a", ".", "b", ".", "2">>, <<"o", "b">> }

\* The ways to give MaxMembers devices distinct chassis positions.
Positions ==
  {f \in [1..MaxMembers -> 1..MaxMembers] :
     \A i, j \in 1..MaxMembers : f[i] = f[j] => i = j}

\* A store with the chassis "ob" and MaxMembers devices: those of inside are
\* its members, at the positions pos; the master is the first of them.
RenameStore(names, pos, inside) ==
  [devices |->
     [i \in 1..MaxMembers |->
        [name |-> names[i], device_type |-> 1, location |-> 3,
         virtual_chassis |-> IF i \in inside THEN 1 ELSE 0,
         vc_position |-> IF i \in inside THEN pos[i] ELSE 0,
         primary_ip4 |-> 0]],
   virtual_chassis |->
     << [name |-> <<"o", "b">>,
         master |-> CHOOSE i \in inside : \A j \in inside : pos[i] <= pos[j]] >>,
   interfaces |-> <<>>, ip_addresses |-> <<>>, roles |-> {ROLE_NAME}]

\* The stores a cascade may find: every choice of member names and
\* positions, with all devices or all but the last in the chassis.
RenameStores ==
  {RenameStore(names, pos, inside) :
     names \in [1..MaxMembers -> MemberNames], pos \in Positions,
     inside \in {1..MaxMembers, 1..(MaxMembers - 1)}}

(***************************************************************************)
(* Actions.                                                                *)
(***************************************************************************)
\* Worker w runs CreateSwitch.run on submitted form data, one of requests,
\* from start to end.
CreateSwitch(w, requests) ==
  /\ jobs[w] = Idle
  /\ \E req \in requests :
       \E r \in {RunToEnd([s |-> store, l |-> NewCreateSwitch(req)])} :
         /\ Len(r.s.devices) <= MaxDevices
         /\ store' = r.s
         /\ jobs' = [jobs EXCEPT ![w] = r.l]

\* The outcome of worker w's job (the returned text or the raised error) is
\* reported; the worker is free again.
Report(w) ==
  /\ jobs[w] # Idle
  /\ Finished(jobs[w])
  /\ jobs' = [jobs EXCEPT ![w] = Idle]
  /\ UNCHANGED store

\* Worker w runs RenameVCMembers.run on a chassis of the store and a new
\* name, from start to end.
RenameVCMembers(w) ==
  /\ jobs[w] = Idle
  /\ \E vc \in 1..Len(store.virtual_chassis), new_name \in NewNames :
       \E r \in {RunToEnd([s |-> store,
                            l |-> NewRenameVCMembers(
                                    [virtual_chassis |-> vc,
                                     new_name |-> new_name])])} :
         /\ store' = r.s
         /\ jobs' = [jobs EXCEPT ![w] = r.l]

\* Worker w takes a CreateSwitch job; its run is about to start.
Start(w) ==
  /\ jobs[w] = Idle
  /\ \E req \in ConcurrentRequests :
       jobs' = [jobs EXCEPT ![w] = NewCreateSwitch(req)]
  /\ UNCHANGED store

\* Worker w executes the next step of its job.
Step(w) ==
  /\ ~Finished(jobs[w])
  /\ \E r \in {JobStep(store, jobs[w])} :
       /\ Len(r.s.devices) <= MaxDevices
       /\ store' = r.s
       /\ jobs' = [jobs EXCEPT ![w] = r.l]

Init ==
  /\ store \in {EmptyStore({ROLE_NAME}), EmptyStore({})}
  /\ jobs = [w \in Workers |-> Idle]

\* Sequential provisioning: one worker, one job at a time.
Next ==
  \/ CreateSwitch(1, CreateSwitchRequests)
  \/ Report(1)

Spec == Init /\ [][Next]_vars

\* Sequential provisioning and rename cascades.
NextCascade ==
  \/ CreateSwitch(1, CascadeRequests)
  \/ RenameVCMembers(1)
  \/ Report(1)

SpecCascade == Init /\ [][NextCascade]_vars

\* Two workers whose CreateSwitch runs interleave step by step.
NextConcurrent ==
  \E w \in Workers :
    \/ Start(w)
    \/ Step(w)
    \/ Report(w)

SpecConcurrent == Init /\ [][NextConcurrent]_vars

\* Rename cascades on chassis with several members.
InitRename ==
  /\ store \in RenameStores
  /\ jobs = [w \in Workers |-> Idle]

NextRename ==
  \/ RenameVCMembers(1)
  \/ Report(1)

SpecRename == InitRename /\ [][NextRename]_vars

(***************************************************************************)
(* The text helpers of CreateSwitch called on their own: _validate_name,   *)
(* the normalisation of _suggest_name and _base_name_parts.  A call is a   *)
(* finished job that holds its inputs and what the helper gave.            *)
(***************************************************************************)
\* The characters of the input texts: a lower-case letter, an upper-case
\* letter, a digit, the hyphen, and two characters outside [A-Za-z0-9-].
Alphabet == {"a", "Z", "1", "-", ".", " "}

Texts == UNION {[1..n -> Alphabet] : n \in 0..MaxLen}

Repeat(c, n) == [i \in 1..n |-> c]

\* Names at the length limits and the names the documentation quotes.
ExampleNames ==
  {Repeat("a", 62), Repeat("a", 63), Repeat("a", 64),
   <<"a">> \o Repeat("-", 62), <<"a">> \o Repeat("-", 63),
   <<"-">> \o Repeat("a", 62), Repeat("a", 62) \o <<".">>,
   <<"-", "a", "b", "c">>, <<"a", "s", "1", "-", "2", "k", "-", "3">>,
   <<"a", "s", "1", ".", "1">>}

\* self._validate_name(name): the call ends, or raises the ValueError whose
\* message quotes the name.
ValidateName(w) ==
  /\ jobs[w] = Idle
  /\ \E name \in Texts \cup ExampleNames :
       jobs' = [jobs EXCEPT ![w] =
                  IF _validate_name(name)
                    THEN [job |-> "_validate_name", name |-> name,
                          pc |-> "done", err |-> "", quoted |-> <<>>]
                    ELSE [job |-> "_validate_name", name |-> name,
                          pc |-> "failed", err |-> "name_invalid",
                          quoted |-> name]]
  /\ UNCHANGED store

\* Lines 172-174 applied to a text, and again to what they gave.
NormalizeText(w) ==
  /\ jobs[w] = Idle
  /\ \E base \in Texts :
       jobs' = [jobs EXCEPT ![w] =
                  [job |-> "normalize", base |-> base, pc |-> "done",
                   normalized |-> Normalize(base),
                   again |-> Normalize(Normalize(base))]]
  /\ UNCHANGED store

\* self._base_name_parts(building, room) for two locations.
BaseNameParts(w) ==
  /\ jobs[w] = Idle
  /\ \E building \in DOMAIN Locations, room \in DOMAIN Locations :
       jobs' = [jobs EXCEPT ![w] =
                  [job |-> "_base_name_parts", building |-> building,
                   room |-> room, pc |-> "done",
                   parts |-> _base_name_parts(building, room)]]
  /\ UNCHANGED store

InitText ==
  /\ store = EmptyStore({})
  /\ jobs = [w \in Workers |-> Idle]

NextText ==
  \/ ValidateName(1)
  \/ NormalizeText(1)
  \/ BaseNameParts(1)
  \/ Report(1)

SpecText == InitText /\ [][NextText]_vars

(***************************************************************************)
(* Properties.  Job is the job of the sequential worker; a property about  *)
(* "a provisioning request" speaks of the state in which that request has  *)
(* just ended, or of the step that runs it.                                *)
(***************************************************************************)
Job == jobs[1]

\* The sequential worker has just ended a CreateSwitch run.
EndedCreateSwitch == Job # Idle /\ Job.job = "CreateSwitch" /\ Finished(Job)

\* The step runs a whole CreateSwitch request on the sequential worker.
RanCreateSwitch ==
  jobs[1] = Idle /\ jobs'[1] # Idle /\ jobs'[1].job = "CreateSwitch"

DeviceIds == 1..Len(store.devices)

DeviceNames == {store.devices[i].name : i \in DeviceIds}

Dot1 == <<".", "1">>

\* The name handed to the structural check by a run that got that far.
CheckedName(l) ==
  IF l.req.name_mode = "manual" /\ l.req.custom_name # <<>>
    THEN Strip(l.req.custom_name)
    ELSE l.suggested_name

\* C1: a provisioning request whose validated base name is B fails with a
\* name conflict whenever a device named B or B.1 exists, whether or not a
\* cluster is requested; and in every state reached by sequential
\* provisioning there is no validated name B such that devices named B and
\* B.1 both exist.
C1_NameExclusion ==
  /\ [](\A B \in DeviceNames :
          _validate_name(B) => (B \o Dot1) \notin DeviceNames)
  /\ [][RanCreateSwitch /\ jobs'[1].suggested_name # <<>>
          /\ _validate_name(CheckedName(jobs'[1]))
          /\ (\/ CheckedName(jobs'[1]) \in DeviceNames
              \/ (CheckedName(jobs'[1]) \o Dot1) \in DeviceNames)
        => jobs'[1].pc = "failed" /\ jobs'[1].err = "name_conflict"
             /\ store' = store]_vars

\* C1 witness: a request without cluster was refused because only the ".1"
\* variant of its base name exists, and there are two devices in the store.
C1_Witness ==
  /\ EndedCreateSwitch
  /\ Job.err = "name_conflict"
  /\ Job.req.vc = "no"
  /\ Job.base_name \notin DeviceNames
  /\ (Job.base_name \o Dot1) \in DeviceNames
  /\ Len(store.devices) = 2

Max(S) == IF S = {} THEN 0 ELSE CHOOSE m \in S : \A x \in S : x <= m

\* P = '-'.join(tokens) + '-as' for a building and a room.
C2_Prefix(building, room) ==
  JoinHyphen(_base_name_parts(building, room)) \o <<"-", "a", "s">>

\* The numbers n such that a device at the room is named P + n or
\* P + n + ".1", compared case-insensitively on the whole name.
C2_Numbers(room, P) ==
  {n \in 1..MaxSeq :
     \E i \in DeviceIds :
       /\ store.devices[i].location = room
       /\ ToLower(store.devices[i].name)
            \in {ToLower(P \o IntToStr(n)), ToLower(P \o IntToStr(n) \o Dot1)}}

\* C2: for every room and token list, _auto_role_code returns "as" followed
\* by one more than the largest number n such that a device at that room is
\* named P + n or P + n + ".1" (case-insensitive, whole name), and "as1"
\* when no device name at the room matches; gaps are never filled and
\* devices at other rooms are ignored.  (The allocator reads the devices
\* only, and every store that is reached is also reached with an idle
\* worker, so the idle states cover all stores.)
C2_MaxPlusOne ==
  Job = Idle =>
    \A building \in {1, 2}, room \in {3, 4} :
      _auto_role_code(store.devices, room, _base_name_parts(building, room))
        = <<"a", "s">>
            \o IntToStr(1 + Max(C2_Numbers(room, C2_Prefix(building, room))))

\* C2 witness: the room holds the numbers 1 and 3 only, a device at the
\* other room or a cluster member is present, and the allocator answers as4.
C2_Witness ==
  /\ C2_Numbers(3, C2_Prefix(1, 3)) = {1, 3}
  /\ \E i \in DeviceIds : EndsWith(store.devices[i].name, Dot1)
  /\ _auto_role_code(store.devices, 3, _base_name_parts(1, 3))
       = <<"a", "s", "4">>

\* The location prefix of suggested names: the normalised tokens and "-as".
C3_Prefix(building, room) ==
  Normalize(JoinHyphen(_base_name_parts(building, room))) \o <<"-", "a", "s">>

\* C3: whenever a request uses the suggested name with a blank role code,
\* the sequence number in the suggested name is strictly greater than the
\* sequence number of every device already stored at that room whose name
\* is the normalised location prefix followed by as<digits> (with or
\* without ".1"), for every building and room, so the suggested name equals
\* no existing device name at that room.
C3_StrictlyIncreasing ==
  (/\ EndedCreateSwitch
   /\ Job.suggested_name # <<>>
   /\ Job.req.role_code = <<>>
   /\ CheckedName(Job) = Job.suggested_name)
  => LET P == C3_Prefix(Job.req.building, Job.req.room)
     IN  \A i \in DeviceIds \ {Job.device} :
           (/\ store.devices[i].location = Job.req.room
            /\ RoleSeqMatch(P, store.devices[i].name) # <<>>)
           => /\ StrToInt(RoleSeqMatch(P, store.devices[i].name))
                   < StrToInt(RoleSeqMatch(P, Job.suggested_name))
              /\ store.devices[i].name # Job.suggested_name

\* No device, cluster, interface or address record was created by the step.
NothingCreated ==
  /\ Len(store'.devices) = Len(store.devices)
  /\ Len(store'.virtual_chassis) = Len(store.virtual_chassis)
  /\ Len(store'.interfaces) = Len(store.interfaces)
  /\ Len(store'.ip_addresses) = Len(store.ip_addresses)

\* C5: whenever a provisioning request ends in an error raised at or after
\* device creation (no covering prefix, or host and prefix length in use),
\* the store holds no device, cluster, interface or address record that the
\* failed request created.
C5_NoOrphans ==
  [][RanCreateSwitch /\ jobs'[1].pc = "failed"
       /\ jobs'[1].err \in {"no_prefix", "address_in_use"}
     => NothingCreated]_vars

\* The first check, in the order placement, manufacturer/model, role, name
\* structure, name uniqueness, address syntax, address in use, that request
\* req fails on store s; "none" when it passes them all.
C6_FirstFailure(s, req) ==
  LET vg_loc == VLANs[req.mgmt_vlan].vg_location
      base   == IF req.name_mode = "manual" /\ req.custom_name # <<>>
                  THEN Strip(req.custom_name)
                  ELSE _suggest_name(s.devices, req.building, req.room,
                                     req.role_code)
      names  == {s.devices[i].name : i \in 1..Len(s.devices)}
      hosts  == {s.ip_addresses[i].host : i \in 1..Len(s.ip_addresses)}
  IN  IF vg_loc = 0 \/ vg_loc # req.building THEN "placement"
      ELSE IF \/ ~Contains(ToLower(Manufacturers[req.manufacturer].name),
                           <<"c", "i", "s", "c", "o">>)
              \/ \E d \in {"1", "2", "3", "4"} :
                   EndsWith(ToLower(DeviceTypes[req.model].model), <<".", d>>)
        THEN "model"
      ELSE IF ROLE_NAME \notin s.roles THEN "role"
      ELSE IF ~_validate_name(base) THEN "name_invalid"
      ELSE IF base \in names \/ (base \o Dot1) \in names THEN "name_conflict"
      ELSE IF ParseIPv4(req.mgmt_ip) = -1 THEN "ip_invalid"
      ELSE IF ParseIPv4(req.mgmt_ip) \in hosts THEN "ip_in_use"
      ELSE "none"

\* The check an error of the run belongs to.
C6_Check(err) == IF err = "manufacturer" THEN "model" ELSE err

\* C6: a request that fails placement validation, manufacturer/model
\* validation, the role lookup, structural name validation, the name
\* uniqueness check, address parsing or the first address-in-use check
\* leaves the store exactly as it was; the checks are evaluated in that
\* order (the first failing one is the one reported), and all of them
\* before the device is created.
C6_PreCreationErrors ==
  [][RanCreateSwitch
     => LET l == jobs'[1]
            e == C6_FirstFailure(store, l.req)
        IN  IF e # "none"
              THEN l.pc = "failed" /\ C6_Check(l.err) = e /\ store' = store
              ELSE l.device = Len(store.devices) + 1
                     /\ Len(store'.devices) = Len(store.devices) + 1]_vars

\* C6 witness: a request with a conflicting name and a malformed address
\* was refused for the name, the earlier of the two checks.
C6_Witness ==
  /\ EndedCreateSwitch
  /\ Job.err = "name_conflict"
  /\ ParseIPv4(Job.req.mgmt_ip) = -1
  /\ Len(store.devices) = 1

\* C7: a successful request with cluster=yes and validated base name B
\* stores the device as B.1, ensures a cluster named exactly B whose master
\* is the new device, and leaves the device in that cluster at position 1;
\* with cluster=no the device is stored as B and no cluster record is
\* created or changed.
C7_ClusterFormation ==
  [][RanCreateSwitch /\ jobs'[1].pc = "done"
     => LET l == jobs'[1]
            B == CheckedName(l)
            d == store'.devices[l.device]
        IN  /\ l.device = Len(store.devices) + 1
            /\ IF l.req.vc = "yes"
                 THEN /\ d.name = B \o Dot1
                      /\ d.virtual_chassis \in 1..Len(store'.virtual_chassis)
                      /\ store'.virtual_chassis[d.virtual_chassis].name = B
                      /\ store'.virtual_chassis[d.virtual_chassis].master = l.device
                      /\ d.vc_position = 1
                 ELSE /\ d.name = B
                      /\ d.virtual_chassis = 0
                      /\ store'.virtual_chassis = store.virtual_chassis]_vars

\* C7 witness: a request with cluster=yes has succeeded while the store
\* already held a cluster.
C7_Witness ==
  /\ EndedCreateSwitch
  /\ Job.pc = "done"
  /\ Job.req.vc = "yes"
  /\ Len(store.virtual_chassis) = 2

\* The prefixes of a VLAN that contain a host, by position.
C9_Matching(vlan, host) ==
  {i \in 1..Len(Prefixes) :
     /\ Prefixes[i].vlan = vlan
     /\ Prefixes[i].network <= host
     /\ host < Prefixes[i].network + Pow2(32 - Prefixes[i].prefix_length)}

Min(S) == CHOOSE m \in S : \A x \in S : m <= x

\* C9: a request that passed all earlier checks succeeds if and only if a
\* prefix of the chosen VLAN contains the host; on success the stored
\* address is the host with the prefix length of the first matching prefix
\* of that VLAN; otherwise the request fails for want of a covering prefix
\* and no address record is created.
C9_Containment ==
  [][RanCreateSwitch /\ C6_FirstFailure(store, jobs'[1].req) = "none"
     => LET l        == jobs'[1]
            host     == ParseIPv4(l.req.mgmt_ip)
            matching == C9_Matching(l.req.mgmt_vlan, host)
        IN  /\ l.pc = "done" <=> matching # {}
            /\ matching # {}
                 => LET a == store'.ip_addresses[
                               store'.devices[l.device].primary_ip4]
                    IN  /\ a.host = host
                        /\ a.mask_length = Prefixes[Min(matching)].prefix_length
                        /\ Len(store'.ip_addresses)
                             = Len(store.ip_addresses) + 1
            /\ matching = {}
                 => /\ l.err = "no_prefix"
                    /\ store'.ip_addresses = store.ip_addresses]_vars

\* C9 witness: a request whose host lies in two prefixes of its VLAN has
\* succeeded, and the store holds a second device.
C9_Witness ==
  /\ EndedCreateSwitch
  /\ Job.pc = "done"
  /\ Cardinality(C9_Matching(Job.req.mgmt_vlan, Job.ip_host)) = 2
  /\ Len(store.devices) = 2

\* C10: after every successful request, the device's primary address is an
\* address record bound to the interface named Vlan<vid> of that same
\* device, vid being the id of the chosen VLAN, and the address's host lies
\* in a prefix of that VLAN whose length is the address's prefix length.
C10_ManagementAddress ==
  (EndedCreateSwitch /\ Job.pc = "done")
  => LET d == store.devices[Job.device]
     IN  /\ d.primary_ip4 \in 1..Len(store.ip_addresses)
         /\ \E i \in 1..Len(store.interfaces) :
              /\ store.interfaces[i].device = Job.device
              /\ store.interfaces[i].name
                   = <<"V", "l", "a", "n">> \o IntToStr(VLANs[Job.req.mgmt_vlan].vid)
              /\ d.primary_ip4 \in store.interfaces[i].ip_addresses
         /\ \E p \in C9_Matching(Job.req.mgmt_vlan,
                                 store.ip_addresses[d.primary_ip4].host) :
              store.ip_addresses[d.primary_ip4].mask_length
                = Prefixes[p].prefix_length

\* C10 witness: the second successful request, on the VLAN of building 2.
C10_Witness ==
  /\ EndedCreateSwitch
  /\ Job.pc = "done"
  /\ Job.req.mgmt_vlan = 2
  /\ Len(store.ip_addresses) = 2

\* C4: when two requests for the same room (suggested names, blank role
\* code) are interleaved step by step, they never both create a device
\* with the same name: the name check is made again when the device is
\* created, so one of two requests that resolved to the same number fails.
C4_NoDoubleAllocation ==
  \A i, j \in DeviceIds :
    i # j => store.devices[i].name # store.devices[j].name

\* C8: in every state reached from the empty store by provisioning requests
\* and rename cascades, each cluster's master device belongs to that
\* cluster at position 1, and no cluster name carries a "."-delimited
\* member suffix.
C8_ClusterInvariant ==
  \A c \in 1..Len(store.virtual_chassis) :
    LET vc == store.virtual_chassis[c]
    IN  /\ vc.master \in DeviceIds
        /\ store.devices[vc.master].virtual_chassis = c
        /\ store.devices[vc.master].vc_position = 1
        /\ \A k \in 1..Len(vc.name) : vc.name[k] # "."

\* C8 witness: a rename cascade has completed on one of two clusters.
C8_Witness ==
  /\ Job # Idle
  /\ Job.job = "RenameVCMembers"
  /\ Job.pc = "done"
  /\ Len(store.virtual_chassis) = 2
  /\ store.virtual_chassis[Job.req.virtual_chassis].name = Job.req.new_name

\* The hosts of the address records of the store.
StoredHosts == {store.ip_addresses[i].host : i \in 1..Len(store.ip_addresses)}

\* The devices that own an interface to which address record a is bound.
BoundDevices(a) ==
  {store.interfaces[i].device :
     i \in {k \in 1..Len(store.interfaces) : a \in store.interfaces[k].ip_addresses}}

\* C11: in sequential execution a request whose host already exists as an
\* address record, with any prefix length, fails before the device is
\* created, with the address-in-use error once the earlier checks have
\* passed; and in every reached state no two devices have the same primary
\* address and no address record is bound to interfaces of two devices.
C11_NoSharedAddress ==
  /\ [](/\ \A i, j \in DeviceIds :
             (i # j /\ store.devices[i].primary_ip4 # 0)
               => store.devices[i].primary_ip4 # store.devices[j].primary_ip4
        /\ \A a \in 1..Len(store.ip_addresses) : Cardinality(BoundDevices(a)) <= 1)
  /\ [][RanCreateSwitch /\ ParseIPv4(jobs'[1].req.mgmt_ip) \in StoredHosts
        => /\ jobs'[1].pc = "failed"
           /\ store' = store
           /\ jobs'[1].ip_host # -1 => jobs'[1].err = "ip_in_use"]_vars

\* C11 witness: a request on the VLAN of building 2 was refused because its
\* host is stored with the prefix length of another VLAN's prefix.
C11_Witness ==
  /\ EndedCreateSwitch
  /\ Job.err = "ip_in_use"
  /\ Job.req.mgmt_vlan = 2
  /\ \E i \in 1..Len(store.ip_addresses) :
       /\ store.ip_addresses[i].host = Job.ip_host
       /\ store.ip_addresses[i].mask_length = 24

\* C12: when two requests carrying the same host are interleaved step by
\* step, the address is checked again when it is created, so at most one of
\* them succeeds and no address record is the primary address of two
\* devices.
C12_NoSharedPrimary ==
  /\ \A i, j \in DeviceIds :
       (i # j /\ store.devices[i].primary_ip4 # 0)
         => store.devices[i].primary_ip4 # store.devices[j].primary_ip4
  /\ ~(/\ \A w \in Workers : jobs[w] # Idle /\ jobs[w].pc = "done"
       /\ jobs[1].ip_host = jobs[2].ip_host)

\* The step runs a whole rename cascade on the sequential worker.
RanRename ==
  jobs[1] = Idle /\ jobs'[1] # Idle /\ jobs'[1].job = "RenameVCMembers"

\* The sequential worker has just ended a rename cascade.
EndedRename == Job # Idle /\ Job.job = "RenameVCMembers" /\ Finished(Job)

\* The members of chassis c.
MembersOf(c) == {i \in DeviceIds : store.devices[i].virtual_chassis = c}

\* Everything that follows the first "." of a name that has one.
AfterFirstDot(name) ==
  SubSeq(name, 1 + (CHOOSE i \in 1..Len(name) :
                      name[i] = "." /\ \A j \in 1..(i - 1) : name[j] # "."),
         Len(name))

HasDot(name) == \E i \in 1..Len(name) : name[i] = "."

\* The members of chassis c positioned before member k.
Before(c, k) ==
  {i \in MembersOf(c) : store.devices[i].vc_position < store.devices[k].vc_position}

\* C13: after a cascade on chassis C with new base N completes without
\* error, the chassis is named N and every member, visited in ascending
\* position, is named N + "." + s, s being what followed the first "." of
\* its name before the cascade.
C13_RenameResult ==
  [][RanRename /\ jobs'[1].pc = "done"
     => LET l == jobs'[1]
            c == l.req.virtual_chassis
            N == l.req.new_name
        IN  /\ store'.virtual_chassis[c].name = N
            /\ Len(l.log) = 1 + Cardinality(MembersOf(c))
            /\ \A i \in MembersOf(c) :
                 /\ store'.devices[i].name
                      = N \o <<".">> \o AfterFirstDot(store.devices[i].name)
                 /\ l.log[2 + Cardinality(Before(c, i))]
                      = [what |-> "device", old |-> store.devices[i].name,
                         new |-> store'.devices[i].name]]_vars

\* C13 witness: a cascade has completed on a chassis whose members were
\* not stored in the order of their positions, one of them now named
\* N.b.2.
C13_Witness ==
  /\ EndedRename
  /\ Job.pc = "done"
  /\ Len(Job.log) >= 3
  /\ Job.log[2].old # store.devices[1].name
  /\ store.devices[1].vc_position > 1
  /\ \E i \in MembersOf(Job.req.virtual_chassis) :
       store.devices[i].name = Job.req.new_name \o <<".", "b", ".", "2">>

\* The organisational pattern: four digits, "-", 3 to 6 lower-case
\* alphanumerics, "-", one or more lower-case alphanumerics, "-", one digit
\* and "k", "-", 1 to 3 lower-case alphanumerics.
C14_Pattern(name) ==
  \E a \in 3..6, b \in 1..Len(name), c \in 1..3 :
    /\ Len(name) = 4 + 1 + a + 1 + b + 1 + 2 + 1 + c
    /\ \A i \in 1..4 : name[i] \in DigitSet
    /\ name[5] = "-"
    /\ \A i \in 6..(5 + a) : name[i] \in DigitSet \cup LowerSet
    /\ name[6 + a] = "-"
    /\ \A i \in (7 + a)..(6 + a + b) : name[i] \in DigitSet \cup LowerSet
    /\ name[7 + a + b] = "-"
    /\ name[8 + a + b] \in DigitSet
    /\ name[9 + a + b] = "k"
    /\ name[10 + a + b] = "-"
    /\ \A i \in (11 + a + b)..(10 + a + b + c) : name[i] \in DigitSet \cup LowerSet

\* C14: if the new name does not match the organisational pattern, the
\* cascade aborts with a validation error and neither the chassis record
\* nor any member device has been changed.
C14_PatternFirst ==
  [][RanRename /\ ~C14_Pattern(jobs'[1].req.new_name)
     => /\ jobs'[1].pc = "failed"
        /\ jobs'[1].err = "pattern"
        /\ store' = store]_vars

\* C14 witness: a new name with an upper-case abbreviation was refused on a
\* chassis with several members.
C14_Witness ==
  /\ EndedRename
  /\ Job.err = "pattern"
  /\ Job.req.new_name[6] = "E"
  /\ Cardinality(MembersOf(Job.req.virtual_chassis)) >= 2

\* C15: if the rename of the member at position k fails (a name without
\* "."), the chassis and every member below k keep their new names, every
\* member above k and member k keep their old names, and the failure is
\* reported for member k: the log names its old name.
C15_PartialFailure ==
  [][RanRename /\ jobs'[1].pc = "failed" /\ jobs'[1].err # "pattern"
     => LET l == jobs'[1]
            c == l.req.virtual_chassis
            N == l.req.new_name
            k == CHOOSE i \in MembersOf(c) :
                   /\ ~HasDot(store.devices[i].name)
                   /\ \A j \in Before(c, i) : HasDot(store.devices[j].name)
        IN  /\ store'.virtual_chassis[c].name = N
            /\ \A i \in MembersOf(c) :
                 store'.devices[i].name
                   = IF i \in Before(c, k)
                       THEN N \o <<".">> \o AfterFirstDot(store.devices[i].name)
                       ELSE store.devices[i].name
            /\ l.log[Len(l.log)].what = "device"
            /\ l.log[Len(l.log)].old = store.devices[k].name]_vars

\* The suggested base name for the tokens of a request and a role token.
C19_Name(req, role) ==
  Normalize(JoinHyphen(Append(_base_name_parts(req.building, req.room), role)))

\* The allocator's role token for a request.
C19_Allocated(req) ==
  _auto_role_code(store.devices, req.room,
                  _base_name_parts(req.building, req.room))

\* The name suggested for building "0123: ENGR", room "X: 105: 1k", blank
\* role code, when no device is at the room.
C19_Example ==
  (\A i \in DeviceIds : store.devices[i].location # 3)
  => _suggest_name(store.devices, 1, 3, <<>>)
       = <<"0", "1", "2", "3", "-", "e", "n", "g", "r", "-",
           "1", "0", "5", "-", "1", "k", "-", "a", "s", "1">>

\* C19 as stated: the suggested base name is the normalised, lower-cased,
\* hyphen-joined composer tokens followed by the role token; the role token
\* is the role code reduced to its alphanumerics and lower-cased when a role
\* code is given (the allocator is not consulted), and the allocator's
\* as<next sequence> when the role code is blank.
C19_SuggestedName ==
  [][RanCreateSwitch /\ jobs'[1].suggested_name # <<>>
     => LET req == jobs'[1].req
        IN  /\ jobs'[1].suggested_name
                 = C19_Name(req, IF req.role_code # <<>>
                                   THEN ToLower(KeepAlnum(req.role_code))
                                   ELSE C19_Allocated(req))
            /\ C19_Example]_vars

\* C19 amended: as stated, except that a role code without any alphanumeric
\* character gives the role token "as1".
C19_SuggestedNameOrAs1 ==
  [][RanCreateSwitch /\ jobs'[1].suggested_name # <<>>
     => LET req == jobs'[1].req
        IN  /\ jobs'[1].suggested_name
                 = C19_Name(req, IF req.role_code = <<>>
                                   THEN C19_Allocated(req)
                                 ELSE IF KeepAlnum(req.role_code) # <<>>
                                   THEN ToLower(KeepAlnum(req.role_code))
                                 ELSE <<"a", "s", "1">>)
            /\ C19_Example]_vars

\* C19 witness: with a device numbered 1 at the room, a request whose role
\* code holds hyphens only was given the name that ends in as1.
C19_Witness ==
  /\ EndedCreateSwitch
  /\ Job.req.role_code = RoleHyphens
  /\ Job.suggested_name
       = <<"0", "1", "2", "3", "-", "e", "n", "g", "r", "-",
           "1", "0", "5", "-", "1", "k", "-", "a", "s", "1">>
  /\ Job.err = "name_conflict"

\* C20: a request is rejected with a placement error, before any mutation,
\* whenever the location selected as building is not of the building
\* category; only a building passes placement validation.
C20_BuildingCategory ==
  [][RanCreateSwitch
       /\ Locations[jobs'[1].req.building].location_type # "Building"
     => /\ jobs'[1].pc = "failed"
        /\ jobs'[1].err = "placement"
        /\ store' = store]_vars

\* The step calls _validate_name on the sequential worker.
RanValidate ==
  jobs[1] = Idle /\ jobs'[1] # Idle /\ jobs'[1].job = "_validate_name"

\* One alphanumeric character followed by 1 to 62 characters that are each
\* alphanumeric or "-".
C16_WellFormed(name) ==
  \E n \in 1..62 :
    /\ Len(name) = n + 1
    /\ name[1] \in DigitSet \cup LowerSet \cup UpperSet
    /\ \A i \in 2..(n + 1) :
         name[i] \in DigitSet \cup LowerSet \cup UpperSet \cup {"-"}

\* C16: structural validation accepts a candidate if and only if the whole
\* string is one alphanumeric character followed by 1 to 62 characters that
\* are each alphanumeric or "-"; every other candidate ("-abc", "a", a name
\* of 64 characters, any name with a ".") is rejected with an error that
\* names the value, and "as1-2k-3" is accepted.
C16_ValidateIff ==
  [][RanValidate
     => /\ (jobs'[1].pc = "done") <=> C16_WellFormed(jobs'[1].name)
        /\ jobs'[1].pc # "done"
             => /\ jobs'[1].pc = "failed"
                /\ jobs'[1].err = "name_invalid"
                /\ jobs'[1].quoted = jobs'[1].name
        /\ \/ jobs'[1].name
                \in {<<"-", "a", "b", "c">>, <<"a">>, Repeat("a", 64)}
           \/ "." \in Range(jobs'[1].name)
           => jobs'[1].pc = "failed"
        /\ jobs'[1].name = <<"a", "s", "1", "-", "2", "k", "-", "3">>
             => jobs'[1].pc = "done"]_vars

\* C16 witness: the call on a name of 64 letters has been rejected with an
\* error that quotes it.
C16_Witness ==
  /\ Job # Idle
  /\ Job.job = "_validate_name"
  /\ Job.name = Repeat("a", 64)
  /\ Job.pc = "failed"
  /\ Job.quoted = Repeat("a", 64)

\* The step normalises a text on the sequential worker.
RanNormalize ==
  jobs[1] = Idle /\ jobs'[1] # Idle /\ jobs'[1].job = "normalize"

\* C17: name normalisation is idempotent: applied to its own output it
\* returns that output unchanged, for every input text.
C17_Idempotent ==
  [][RanNormalize => jobs'[1].again = jobs'[1].normalized]_vars

\* C17 witness: a text that loses a character outside [A-Za-z0-9-], a run of
\* hyphens, a leading hyphen and its upper case has been normalised, twice.
C17_Witness ==
  /\ Job # Idle
  /\ Job.job = "normalize"
  /\ Job.base = <<"-", ".", "-", "Z">>
  /\ Job.normalized = <<"z">>
  /\ Job.again = <<"z">>

\* The step calls _base_name_parts on the sequential worker.
RanBaseNameParts ==
  jobs[1] = Idle /\ jobs'[1] # Idle /\ jobs'[1].job = "_base_name_parts"

\* The number of colon-delimited fields of a name.
C18_FieldCount(name) ==
  Cardinality({i \in 1..Len(name) : name[i] = ":"}) + 1

\* The positions of the k-th colon-delimited field of a name.
C18_FieldAt(name, k) ==
  {i \in 1..Len(name) :
     /\ name[i] # ":"
     /\ Cardinality({j \in 1..i : name[j] = ":"}) = k - 1}

\* The text at a set of consecutive positions.
C18_Slice(name, at) ==
  IF at = {} THEN <<>>
  ELSE SubSeq(name, CHOOSE i \in at : \A j \in at : i <= j,
                    CHOOSE i \in at : \A j \in at : j <= i)

C18_Field(name, k) == C18_Slice(name, C18_FieldAt(name, k))

\* A text without its leading and trailing white space.
C18_Trim(t) == C18_Slice(t, {i \in 1..Len(t) : ~IsSpace(t[i])})

\* The k designation of a room name: its third field, trimmed; empty when
\* there is none.
C18_K(room) ==
  IF C18_FieldCount(room) >= 3 THEN C18_Trim(C18_Field(room, 3)) ELSE <<>>

\* What C18 says of the list given for a building name and a room name.
C18_ShapeOf(parts, building, room) ==
  /\ Len(parts) \in {3, 4}
  /\ parts[1] = C18_Trim(C18_Field(building, 1))
  /\ parts[2] = IF C18_FieldCount(building) >= 2
                  THEN C18_Trim(C18_Field(building, 2))
                  ELSE C18_Trim(building)
  /\ parts[3] = IF C18_FieldCount(room) >= 2
                  THEN C18_Trim(C18_Field(room, 2))
                  ELSE C18_Trim(room)
  /\ Len(parts) = 4 <=> C18_K(room) # <<>>
  /\ Len(parts) = 4 => parts[4] = C18_K(room)
  /\ C18_FieldCount(building) = 1
       => parts[1] = C18_Trim(building) /\ parts[2] = C18_Trim(building)

\* C18: _base_name_parts returns the building number, the building
\* abbreviation and the room number, in that order, followed by the k
\* designation only when the room name has a third colon-delimited field that
\* is not empty once trimmed; a missing or blank k designation gives three
\* elements; a building name without ":" gives its whole trimmed text for
\* both building fields and a room name without ":" its whole trimmed text
\* as the room number; the list depends on the two names only.
C18_Shape ==
  [][RanBaseNameParts
     => /\ C18_ShapeOf(jobs'[1].parts,
                       Locations[jobs'[1].building].name,
                       Locations[jobs'[1].room].name)
        /\ jobs'[1].parts
             = _base_name_parts(jobs'[1].building, jobs'[1].room)]_vars

\* C18 witness: the call for the building "Annex" and the room "X: 105: ",
\* whose third field is blank, has given three tokens.
C18_Witness ==
  /\ Job # Idle
  /\ Job.job = "_base_name_parts"
  /\ Locations[Job.building].name = <<"A", "n", "n", "e", "x">>
  /\ Locations[Job.room].name = <<"X", ":", " ", "1", "0", "5", ":", " ">>
  /\ Job.parts = <<<<"A", "n", "n", "e", "x">>, <<"A", "n", "n", "e", "x">>,
                   <<"1", "0", "5">>>>

\* The DeviceType records of manufacturer m named like model k with ".1"
\* appended.
C21_Variants(m, k) ==
  {v \in DOMAIN DeviceTypes :
     /\ DeviceTypes[v].manufacturer = m
     /\ DeviceTypes[v].model = DeviceTypes[k].model \o <<".", "1">>}

\* The request names a member variant as model, or a manufacturer whose name
\* does not contain "cisco".
C21_Refused(req) ==
  \/ \E d \in {"1", "2", "3", "4"} :
       LET m == DeviceTypes[req.model].model
       IN  Len(m) >= 2 /\ m[Len(m) - 1] = "." /\ m[Len(m)] = d
  \/ \A i \in 1..(Len(Manufacturers[req.manufacturer].name) - 4) :
       ToLower(SubSeq(Manufacturers[req.manufacturer].name, i, i + 4))
         # <<"c", "i", "s", "c", "o">>

\* C21: a request whose model name ends in ".1", ".2", ".3" or ".4", or whose
\* manufacturer name does not contain "cisco", is rejected before any
\* mutation; otherwise the created device has the device type of the same
\* manufacturer named "<model>.1" whenever there is one, and the selected
\* model only when there is none, whether or not a cluster was requested.
C21_ModelSelection ==
  [][RanCreateSwitch
     => /\ C21_Refused(jobs'[1].req)
             => jobs'[1].pc = "failed" /\ store' = store
        /\ ~C21_Refused(jobs'[1].req) /\ jobs'[1].device # 0
             => LET req == jobs'[1].req
                    dev == store'.devices[jobs'[1].device]
                    alt == C21_Variants(req.manufacturer, req.model)
                IN  /\ alt # {} => dev.device_type \in alt
                    /\ alt = {} => dev.device_type = req.model]_vars

\* C21 witness: a request without cluster for the model "C9300" has created
\* a device of type "C9300.1".
C21_Witness ==
  /\ EndedCreateSwitch
  /\ Job.pc = "done"
  /\ Job.req.vc = "no"
  /\ Job.req.model = 1
  /\ store.devices[Job.device].device_type = 2

\* A name in normalised form: lower-case letters, digits and hyphens only,
\* no repeated hyphen, no leading or trailing hyphen.
C22_Canonical(name) ==
  /\ \A i \in 1..Len(name) : name[i] \in DigitSet \cup LowerSet \cup {"-"}
  /\ \A i \in 1..(Len(name) - 1) : ~(name[i] = "-" /\ name[i + 1] = "-")
  /\ name # <<>> => name[1] # "-" /\ name[Len(name)] # "-"

\* A device name without its member suffix ".1".
C22_Base(name) ==
  IF Len(name) >= 2 /\ name[Len(name) - 1] = "." /\ name[Len(name)] = "1"
    THEN SubSeq(name, 1, Len(name) - 2)
    ELSE name

\* C22: in both naming modes the base name handed to the structural check,
\* and therefore the base of every device name that provisioning persists,
\* is in normalised form: lower-case, within [a-z0-9-], without repeated
\* hyphens and without leading or trailing hyphen.
C22_CanonicalNames ==
  [][RanCreateSwitch
     => /\ jobs'[1].base_name # <<>> => C22_Canonical(jobs'[1].base_name)
        /\ jobs'[1].device # 0
             => C22_Canonical(C22_Base(store'.devices[jobs'[1].device].name))]_vars

\* C23: in every state reached by provisioning requests and rename
\* cascades, no two device records have the same name, and no device named
\* N coexists with a cluster member named N.1.
C23_CascadeKeepsNamesApart ==
  \A i, j \in DeviceIds :
    /\ i # j => store.devices[i].name # store.devices[j].name
    /\ store.devices[j].virtual_chassis # 0
         => store.devices[j].name # store.devices[i].name \o <<".", "1">>

\* The base name that the run handed to the structural check.
C24_Validated(l) ==
  IF l.req.name_mode = "manual" /\ l.req.custom_name # <<>>
    THEN C18_Trim(l.req.custom_name)
    ELSE l.suggested_name

\* The name ends in ".1.1".
C24_DoubleSuffix(name) ==
  /\ Len(name) >= 4
  /\ SubSeq(name, Len(name) - 3, Len(name)) = <<".", "1", ".", "1">>

\* C24: the structural check rejects every name with a ".", so the base name
\* that reaches name finalisation never ends in ".1" and is never stripped;
\* with cluster=yes the stored device name is exactly base + ".1" and the
\* cluster name is exactly the validated base; no device name created by
\* provisioning ends in ".1.1".
C24_NoDoubleSuffix ==
  [][RanCreateSwitch /\ jobs'[1].device_name # <<>>
     => /\ "." \notin Range(C24_Validated(jobs'[1]))
        /\ jobs'[1].base_name = C24_Validated(jobs'[1])
        /\ jobs'[1].req.vc = "yes"
             => /\ jobs'[1].device_name
                     = C24_Validated(jobs'[1]) \o <<".", "1">>
                /\ jobs'[1].device # 0
                     => store'.devices[jobs'[1].device].name
                          = C24_Validated(jobs'[1]) \o <<".", "1">>
                /\ jobs'[1].vc_obj # 0
                     => store'.virtual_chassis[jobs'[1].vc_obj].name
                          = C24_Validated(jobs'[1])
        /\ \A i \in 1..Len(store'.devices) :
             ~C24_DoubleSuffix(store'.devices[i].name)]_vars

\* C24 witness: a request with cluster=yes and a custom name has created the
\* device named after the custom name with ".1" and the cluster named after
\* the custom name.
C24_Witness ==
  /\ EndedCreateSwitch
  /\ Job.pc = "done"
  /\ Job.req.vc = "yes"
  /\ Job.req.name_mode = "manual"
  /\ store.devices[Job.device].name = Job.req.custom_name \o <<".", "1">>
  /\ store.virtual_chassis[Job.vc_obj].name = Job.req.custom_name

\* Record r is record q but for its name.
C25_SameButName(r, q) == [r EXCEPT !.name = q.name] = q

\* What a rename cascade on cluster c may change between stores s and t: the
\* name of cluster c and the names of the devices that are its members.
C25_RenameFrame(s, t, c) ==
  /\ Len(t.devices) = Len(s.devices)
  /\ Len(t.virtual_chassis) = Len(s.virtual_chassis)
  /\ t.interfaces = s.interfaces
  /\ t.ip_addresses = s.ip_addresses
  /\ \A i \in 1..Len(s.devices) :
       /\ C25_SameButName(t.devices[i], s.devices[i])
       /\ s.devices[i].virtual_chassis # c => t.devices[i] = s.devices[i]
  /\ \A k \in 1..Len(s.virtual_chassis) :
       /\ C25_SameButName(t.virtual_chassis[k], s.virtual_chassis[k])
       /\ k # c => t.virtual_chassis[k] = s.virtual_chassis[k]

\* No device, cluster, interface or address record of store s is missing
\* from store t.
C25_NothingDeleted(s, t) ==
  /\ Len(t.devices) >= Len(s.devices)
  /\ Len(t.virtual_chassis) >= Len(s.virtual_chassis)
  /\ Len(t.interfaces) >= Len(s.interfaces)
  /\ Len(t.ip_addresses) >= Len(s.ip_addresses)

\* C25: a rename cascade changes only the name of the selected cluster and
\* of that cluster's member devices (membership, positions, master, primary
\* addresses and everything outside the cluster are unchanged), and neither
\* a provisioning request nor a rename cascade deletes a device, cluster,
\* interface or address record.
C25_Frame ==
  [][/\ RanRename
          => C25_RenameFrame(store, store', jobs'[1].req.virtual_chassis)
     /\ C25_NothingDeleted(store, store')]_vars

\* C25 witness: a cascade has renamed a cluster and its member while a
\* device outside the cluster kept its name.
C25_Witness ==
  /\ EndedRename
  /\ Job.pc = "done"
  /\ store.virtual_chassis[Job.req.virtual_chassis].name = Job.req.new_name
  /\ \E i, j \in DeviceIds :
       /\ store.devices[i].virtual_chassis = Job.req.virtual_chassis
       /\ store.devices[i].name = Job.req.new_name \o <<".", "1">>
       /\ store.devices[j].virtual_chassis # Job.req.virtual_chassis
       /\ store.devices[j].name # Job.req.new_name \o <<".", "1">>

=============================================================================
